---- MODULE Spec2Model ----
(***************************************************************************)
(* Model of run.py: SequenceEnvironmentWrapper (the fixed-length history   *)
(* window kept around one raw gym environment) and _batch_rollout (the     *)
(* batched evaluation loop that drives a list of such wrappers).           *)
(*                                                                         *)
(* Python lists and numpy arrays indexed 0..n-1 are sequences indexed      *)
(* 1..n here: slot i of the code is slot i+1 of the model, and position    *)
(* num_stack_frames-2 of a window is position num_stack_frames-1.          *)
(***************************************************************************)
EXTENDS Integers, Sequences, FiniteSets, TLC

\* ---- bounds of the model ------------------------------------------------
MaxCap == 3        \* num_stack_frames ranges over 1..MaxCap (one wrapper)
MaxCells == 4      \* rollout: len(envs) * num_stack_frames <= MaxCells
MaxBatch == 2      \* len(envs) ranges over 1..MaxBatch
MaxEpisodes == 4   \* num_episodes ranges over 0..MaxEpisodes
MaxScores == 5     \* print_metrics is given 1..MaxScores scores
MaxSteps == 2      \* envs[0].spec.max_episode_steps ranges over 0..MaxSteps
MaxPads == 1       \* direct pad_current_episode calls made on one wrapper

\* ---- values exchanged with the raw environment and the policy ------------
\* The code never branches on an observation, an action or a reward: it
\* stores them and adds rewards.  0 stands for the all-zero frame written by
\* pad_current_episode; a frame returned by a raw environment is a positive
\* number.  In a rollout the frame that environment k returns after n steps
\* of its episode (n = 0: the frame of reset) is named by k and n, so that no
\* two frames of a round are equal and a frame found in the wrong window or
\* at the wrong place of a window is seen.
EnvFrame(k, n) == (MaxSteps + 1) * (k - 1) + n + 1
\* frames returned to a caller that drives one wrapper directly
FrameValues == {1, 2}
\* 0 is also the placeholder action of a timestep not yet acted on.
ActionValues == {0, 1}
\* 0 is also the placeholder reward of a timestep not yet acted on.
RewardValues == {0, 1}

\* scores handed to print_metrics
ScoreValues == {1, 2, 3, 4, 100}

VARIABLES
  envs,          \* the list of SequenceEnvironmentWrapper objects
  last_call,     \* per wrapper: the last direct reset/step call and its return
  num_episodes,  \* argument of _batch_rollout
  num_batch,     \* len(envs)
  num_steps,     \* envs[0].spec.max_episode_steps
  pc,            \* position of _batch_rollout
  error,         \* the exception that left _batch_rollout, or "none"
  c,             \* round index (for c in range(num_episodes // num_batch))
  t,             \* tick index (for t in range(num_steps))
  i,             \* slot index of the list comprehension in progress
  obs_list,      \* windows returned so far by the comprehension in progress
  obs,           \* the batched windows handed to the policy
  actions,       \* the batch of actions returned by the policy
  step_results,  \* (rew, done) of env.step per slot, this tick
  rew_sum,       \* cumulative reward per slot
  done,          \* latched done per slot (int32 0/1)
  done_prev,     \* done as it was before this tick
  rew_sum_list,  \* the rew_sum arrays of the completed rounds
  result,        \* the value returned by _batch_rollout
  env_called,    \* history: some raw env.reset/env.step has been called
  round_resets,  \* history: raw env.reset calls per slot in this round
  round_steps,   \* history: raw env.step calls per slot in this round
  first_done,    \* history: tick of the first raw done per slot, -1 if none
  raw_before,    \* history: sum of raw rewards per slot before first raw done
  ticks,         \* history: ticks completed in this round
  seeds_list,    \* the seeds drawn for all episodes (each named by its draw)
  seeds,         \* the slice of seeds_list of the round in progress
  rng_seed,      \* the seed last given to rng.manual_seed, 0 if none
  reset_seed,    \* history: seed passed to reset per slot in this round
  seed_uses,     \* history: number of reset calls made with each drawn seed
  policy_calls,  \* history: policy_fn calls in this round
  close_calls,   \* history: env.close() calls per slot
  pre_envs,      \* history: the wrappers as they were when the tick began
  pre_rew_sum,   \* history: rew_sum as it was when the tick began
  step_calls,    \* per slot: how far its step call of this tick has come,
                 \* and what its raw environment returned to it
  metric,        \* argument of print_metrics
  metric_dtype,  \* dtype numpy gives that argument
  report         \* the four values printed by print_metrics

vars == <<envs, last_call, num_episodes, num_batch, num_steps, pc, error, c, t,
          i, obs_list, obs, actions, step_results, rew_sum, done, done_prev,
          rew_sum_list, result, env_called, round_resets, round_steps,
          first_done, raw_before, ticks, seeds_list, seeds, rng_seed,
          reset_seed, seed_uses, policy_calls, close_calls, pre_envs,
          pre_rew_sum, step_calls, metric, metric_dtype, report>>

seedVars == <<seeds_list, seeds, rng_seed, reset_seed, seed_uses>>
orderVars == <<pre_envs, pre_rew_sum, step_calls>>
metricVars == <<metric, metric_dtype, report>>

driverVars == <<num_episodes, num_batch, num_steps, pc, error, c, t, i,
                obs_list, obs,
                actions, step_results, rew_sum, done, done_prev, rew_sum_list,
                result, env_called, round_resets, round_steps, first_done,
                raw_before, ticks, seedVars, policy_calls, close_calls,
                orderVars, metricVars>>

\* ---- collections.deque(maxlen=...) ---------------------------------------

\* Variant of DequeAppend: an unbounded append that never drops an item.
DequeAppendNoEvict(s, x, maxlen) == Append(s, x)

\* deque.append on a deque with a maxlen: a full deque drops its oldest item.
DequeAppend(s, x, maxlen) ==
  IF maxlen = 0 THEN s
  ELSE IF Len(s) = maxlen THEN Append(Tail(s), x)
  ELSE Append(s, x)

\* s[-1] = x
SetLast(s, x) == [s EXCEPT ![Len(s)] = x]

\* ---- SequenceEnvironmentWrapper -----------------------------------------

\* __init__: five empty deques of maxlen num_stack_frames.  ts_kind is a
\* history field: for every entry of obs_stack, whether the timestep was
\* pushed by pad_current_episode ("pad") or by reset/step ("frame").
\* done_kind is a history field: for every entry of done_stack, the method
\* that appended it ("pad", "reset" or "step").
NewWrapper(n) ==
  [num_stack_frames |-> n,
   obs_stack |-> <<>>, act_stack |-> <<>>, rew_stack |-> <<>>,
   done_stack |-> <<>>, info_stack |-> <<>>, ts_kind |-> <<>>,
   done_kind |-> <<>>]

\* np.zeros_like(obs)
ZerosLike(o) == 0

RECURSIVE pad_current_episode(_, _, _)
pad_current_episode(w, o, n) ==
  IF n <= 0 THEN w
  ELSE pad_current_episode(
         [w EXCEPT !.obs_stack = DequeAppend(@, ZerosLike(o), w.num_stack_frames),
                   !.act_stack = DequeAppend(@, 0, w.num_stack_frames),
                   !.rew_stack = DequeAppend(@, 0, w.num_stack_frames),
                   !.done_stack = DequeAppend(@, 1, w.num_stack_frames),
                   !.done_kind = DequeAppend(@, "pad", w.num_stack_frames),
                   !.info_stack = DequeAppend(@, "None", w.num_stack_frames),
                   !.ts_kind = DequeAppend(@, "pad", w.num_stack_frames)],
         o, n - 1)

Reverse(s) == [p \in 1..Len(s) |-> s[Len(s) + 1 - p]]

\* Variant of GetObs: the stacks are returned newest first.
GetObsNewestFirst(w) ==
  [observations |-> Reverse(w.obs_stack), actions |-> Reverse(w.act_stack),
   rewards |-> Reverse(w.rew_stack)]

\* _get_obs: copies of the three stacks (np.stack), oldest first.
GetObs(w) ==
  [observations |-> w.obs_stack, actions |-> w.act_stack, rewards |-> w.rew_stack]

\* Variant of WrapperReset: the window is not padded at all.
WrapperResetNoPad(w, o) ==
  [w EXCEPT !.obs_stack = DequeAppend(@, o, w.num_stack_frames),
            !.act_stack = DequeAppend(@, 0, w.num_stack_frames),
            !.rew_stack = DequeAppend(@, 0, w.num_stack_frames),
            !.done_stack = DequeAppend(@, 0, w.num_stack_frames),
            !.done_kind = DequeAppend(@, "reset", w.num_stack_frames),
            !.info_stack = DequeAppend(@, "None", w.num_stack_frames),
            !.ts_kind = DequeAppend(@, "frame", w.num_stack_frames)]

\* Variant of WrapperReset: pads only the entries the window is missing.
WrapperResetPadMissing(w, o) ==
  LET p == pad_current_episode(w, o, w.num_stack_frames - 1 - Len(w.obs_stack))
  IN [p EXCEPT !.obs_stack = DequeAppend(@, o, w.num_stack_frames),
               !.act_stack = DequeAppend(@, 0, w.num_stack_frames),
               !.rew_stack = DequeAppend(@, 0, w.num_stack_frames),
               !.done_stack = DequeAppend(@, 0, w.num_stack_frames),
               !.done_kind = DequeAppend(@, "reset", w.num_stack_frames),
               !.info_stack = DequeAppend(@, "None", w.num_stack_frames),
               !.ts_kind = DequeAppend(@, "frame", w.num_stack_frames)]

\* reset, given the observation o returned by self.env.reset (jpeg_obs False).
WrapperReset(w, o) ==
  LET p == pad_current_episode(w, o, w.num_stack_frames - 1)
  IN [p EXCEPT !.obs_stack = DequeAppend(@, o, w.num_stack_frames),
               !.act_stack = DequeAppend(@, 0, w.num_stack_frames),
               !.rew_stack = DequeAppend(@, 0, w.num_stack_frames),
               !.done_stack = DequeAppend(@, 0, w.num_stack_frames),
               !.done_kind = DequeAppend(@, "reset", w.num_stack_frames),
               !.info_stack = DequeAppend(@, "None", w.num_stack_frames),
               !.ts_kind = DequeAppend(@, "frame", w.num_stack_frames)]

\* step, first statement: self.act_stack[-1] = action (IndexError when empty).
StepCanStart(w) == Len(w.act_stack) > 0

StepSetAction(w, action) == [w EXCEPT !.act_stack = SetLast(@, action)]

\* Variant of WrapperStep: the reward is written after the new timestep is
\* appended, so it lands in the placeholder slot.
WrapperStepLateReward(w, action, o, rew, raw_done, info) ==
  LET a == StepSetAction(w, action)
      r == [a EXCEPT !.obs_stack = DequeAppend(@, o, w.num_stack_frames),
                     !.act_stack = DequeAppend(@, 0, w.num_stack_frames),
                     !.rew_stack = DequeAppend(@, 0, w.num_stack_frames),
                     !.info_stack = DequeAppend(@, info, w.num_stack_frames),
                     !.ts_kind = DequeAppend(@, "frame", w.num_stack_frames)]
  IN [r EXCEPT !.rew_stack = SetLast(@, rew)]

\* Variant of WrapperStep: the raw done is appended to done_stack.
WrapperStepAppendDone(w, action, o, rew, raw_done, info) ==
  LET a == StepSetAction(w, action)
      r == [a EXCEPT !.rew_stack = SetLast(@, rew)]
  IN [r EXCEPT !.obs_stack = DequeAppend(@, o, w.num_stack_frames),
               !.act_stack = DequeAppend(@, 0, w.num_stack_frames),
               !.rew_stack = DequeAppend(@, 0, w.num_stack_frames),
               !.done_stack = DequeAppend(@, IF raw_done THEN 1 ELSE 0,
                                          w.num_stack_frames),
               !.done_kind = DequeAppend(@, "step", w.num_stack_frames),
               !.info_stack = DequeAppend(@, info, w.num_stack_frames),
               !.ts_kind = DequeAppend(@, "frame", w.num_stack_frames)]

\* Variant of WrapperStep: the action taken is appended as the placeholder.
WrapperStepKeepAction(w, action, o, rew, raw_done, info) ==
  LET a == StepSetAction(w, action)
      r == [a EXCEPT !.rew_stack = SetLast(@, rew)]
  IN [r EXCEPT !.obs_stack = DequeAppend(@, o, w.num_stack_frames),
               !.act_stack = DequeAppend(@, action, w.num_stack_frames),
               !.rew_stack = DequeAppend(@, 0, w.num_stack_frames),
               !.info_stack = DequeAppend(@, info, w.num_stack_frames),
               !.ts_kind = DequeAppend(@, "frame", w.num_stack_frames)]

\* step, given (o, rew, raw_done, info) returned by self.env.step(action); raw_done
\* is handed back to the caller and written nowhere.
WrapperStep(w, action, o, rew, raw_done, info) ==
  LET a == StepSetAction(w, action)
      r == [a EXCEPT !.rew_stack = SetLast(@, rew)]
  IN [r EXCEPT !.obs_stack = DequeAppend(@, o, w.num_stack_frames),
               !.act_stack = DequeAppend(@, 0, w.num_stack_frames),
               !.rew_stack = DequeAppend(@, 0, w.num_stack_frames),
               !.info_stack = DequeAppend(@, info, w.num_stack_frames),
               !.ts_kind = DequeAppend(@, "frame", w.num_stack_frames)]

\* step, lines 88-94 alone, on a wrapper whose action slot line 85 has
\* written: the reward goes into the newest slot, then the new timestep is
\* appended.
StepStore(a, o, rew, info) ==
  LET r == [a EXCEPT !.rew_stack = SetLast(@, rew)]
  IN [r EXCEPT !.obs_stack = DequeAppend(@, o, a.num_stack_frames),
               !.act_stack = DequeAppend(@, 0, a.num_stack_frames),
               !.rew_stack = DequeAppend(@, 0, a.num_stack_frames),
               !.info_stack = DequeAppend(@, info, a.num_stack_frames),
               !.ts_kind = DequeAppend(@, "frame", a.num_stack_frames)]

\* The timesteps of the window that one more append leaves in it: a full
\* deque drops its oldest item, a deque that is not full drops nothing.
Kept(w) ==
  IF Len(w.obs_stack) = w.num_stack_frames
  THEN [observations |-> Tail(w.obs_stack), actions |-> Tail(w.act_stack),
        rewards |-> Tail(w.rew_stack)]
  ELSE GetObs(w)

\* History record of a call on a wrapper: the operation, whether it raised,
\* the action passed, the raw observation, reward and done returned by the
\* wrapped environment, the window as it was before the call (for a step:
\* the timesteps of that window that the step's append does not drop), the
\* window the call returned (NoWindow when it raised or returns nothing),
\* and the number of calls of pad_current_episode made on the wrapper from
\* outside reset.
NoWindow == <<>>

NoCall ==
  [op |-> "none", raised |-> FALSE, action |-> 0, obs |-> 0, rew |-> 0,
   done |-> FALSE, before |-> NoWindow, window |-> NoWindow,
   direct_pads |-> 0]

CallRecord(call, w, op, raised, a, o, r, d, returned) ==
  [op |-> op, raised |-> raised, action |-> a, obs |-> o, rew |-> r, done |-> d,
   before |-> IF op = "step" THEN Kept(w) ELSE GetObs(w),
   window |-> returned,
   direct_pads |-> call.direct_pads + (IF op = "pad" THEN 1 ELSE 0)]

Slots == 1..num_batch

\* ---- calls made directly on the wrappers (any caller) --------------------

CallReset(k) ==
  /\ pc = "free"
  /\ \E o \in FrameValues :
       /\ envs' = [envs EXCEPT ![k] = WrapperReset(@, o)]
       /\ last_call' = [last_call EXCEPT ![k] =
            CallRecord(@, envs[k], "reset", FALSE, 0, o, 0, FALSE,
                       GetObs(envs'[k]))]
  /\ UNCHANGED driverVars

CallStep(k) ==
  /\ pc = "free"
  /\ StepCanStart(envs[k])
  /\ \E a \in ActionValues, o \in FrameValues, r \in RewardValues, d \in BOOLEAN :
       /\ envs' = [envs EXCEPT ![k] = WrapperStep(@, a, o, r, d, "info")]
       /\ last_call' = [last_call EXCEPT ![k] =
            CallRecord(@, envs[k], "step", FALSE, a, o, r, d,
                       GetObs(envs'[k]))]
  /\ UNCHANGED driverVars

\* step on a wrapper whose window is empty (never reset, never padded):
\* act_stack[-1] raises IndexError before anything is changed.
CallStepEmpty(k) ==
  /\ pc = "free"
  /\ ~StepCanStart(envs[k])
  /\ last_call' = [last_call EXCEPT ![k] =
       CallRecord(@, envs[k], "step", TRUE, 0, 0, 0, FALSE, NoWindow)]
  /\ UNCHANGED <<envs, driverVars>>

\* step whose raw self.env.step raises: the action slot is already written.
CallStepFault(k) ==
  /\ pc = "free"
  /\ StepCanStart(envs[k])
  /\ \E a \in ActionValues :
       /\ envs' = [envs EXCEPT ![k] = StepSetAction(@, a)]
       /\ last_call' = [last_call EXCEPT ![k] =
            CallRecord(@, envs[k], "step", TRUE, a, 0, 0, FALSE, NoWindow)]
  /\ UNCHANGED driverVars

\* reset whose raw self.env.reset raises: nothing is changed.
CallResetFault(k) ==
  /\ pc = "free"
  /\ last_call' = [last_call EXCEPT ![k] =
       CallRecord(@, envs[k], "reset", TRUE, 0, 0, 0, FALSE, NoWindow)]
  /\ UNCHANGED <<envs, driverVars>>

\* pad_current_episode(obs, n) called by the owner of the wrapper: the method
\* is public, makes no call on the wrapped environment and returns None.
\* Every n above num_stack_frames leaves the window that n = num_stack_frames
\* leaves, and n = 0 changes nothing.  Only the shape of obs is used, so the call record keeps no frame.
CallPad(k) ==
  /\ pc = "free"
  /\ last_call[k].direct_pads < MaxPads
  /\ \E o \in FrameValues, n \in 1..envs[k].num_stack_frames :
       /\ envs' = [envs EXCEPT ![k] = pad_current_episode(@, o, n)]
       /\ last_call' = [last_call EXCEPT ![k] =
            CallRecord(@, envs[k], "pad", FALSE, 0, 0, 0, FALSE, NoWindow)]
  /\ UNCHANGED driverVars

ZeroVec(n) == [k \in 1..n |-> 0]

InitCommon(maxcap) ==
  /\ \E n \in 1..maxcap : envs = [k \in 1..num_batch |-> NewWrapper(n)]
  /\ last_call = [k \in 1..num_batch |-> NoCall]
  /\ error = "none"
  /\ c = 0 /\ t = 0 /\ i = 0
  /\ obs_list = <<>>
  /\ obs = <<>> /\ actions = <<>> /\ step_results = <<>>
  /\ rew_sum = <<>> /\ done = <<>> /\ done_prev = <<>>
  /\ rew_sum_list = <<>>
  /\ result = <<>>
  /\ env_called = FALSE
  /\ round_resets = ZeroVec(num_batch)
  /\ round_steps = ZeroVec(num_batch)
  /\ first_done = [k \in 1..num_batch |-> -1]
  /\ raw_before = ZeroVec(num_batch)
  /\ ticks = 0
  /\ seeds_list = <<>> /\ seeds = <<>> /\ rng_seed = 0
  /\ reset_seed = ZeroVec(num_batch)
  /\ seed_uses = <<>>
  /\ policy_calls = 0
  /\ close_calls = ZeroVec(num_batch)
  /\ pre_envs = <<>> /\ pre_rew_sum = <<>> /\ step_calls = <<>>
  /\ report = <<>>

\* One wrapper, called in any order by its owner.
InitWrapper ==
  /\ metric = <<>> /\ metric_dtype = "float32"
  /\ num_batch = 1
  /\ InitCommon(MaxCap)
  /\ pc = "free"
  /\ num_episodes = 0
  /\ num_steps = 0

NextWrapper ==
  \/ \E k \in Slots : CallReset(k)
  \/ \E k \in Slots : CallStep(k)
  \/ \E k \in Slots : CallStepEmpty(k)
  \/ \E k \in Slots : CallStepFault(k)
  \/ \E k \in Slots : CallResetFault(k)
  \/ \E k \in Slots : CallPad(k)

SpecWrapper == InitWrapper /\ [][NextWrapper]_vars

\* ---- _batch_rollout ------------------------------------------------------

\* Variant of AssertHolds: the divisibility check is missing.
AssertHoldsAlways(ne, nb) == TRUE

\* assert num_episodes % num_batch == 0
AssertHolds(ne, nb) == ne % nb = 0

\* range(num_episodes // num_batch)
NumRounds(ne, nb) == ne \div nb

\* Variant of LogicalOr: the previous latch is ignored.
LogicalOrNoLatch(raw, prev) == IF raw THEN 1 ELSE 0

\* np.logical_or(done, done_prev).astype(np.int32), one slot; raw is a bool
LogicalOr(raw, prev) == IF raw \/ prev # 0 THEN 1 ELSE 0

\* Variant of MaskReward: the reward is not masked.
MaskRewardNone(rew, d) == rew

\* rew * (1 - done), one slot
MaskReward(rew, d) == rew * (1 - d)

\* Variant of AllDone: np.any(done).
AllDoneAny(d) == \E k \in DOMAIN d : d[k] # 0

\* np.all(done)
AllDone(d) == \A k \in DOMAIN d : d[k] # 0

\* np.concatenate(rew_sum_list)
RECURSIVE Concatenate(_)
Concatenate(l) == IF l = <<>> THEN <<>> ELSE Head(l) \o Concatenate(Tail(l))

\* The state when _batch_rollout is entered: len(envs) wrappers built by one
\* env_fn (lines 175, 182: 8 wrappers of 4 frames in the script), all of the
\* same capacity and not yet reset.  Here 1..MaxBatch wrappers of
\* 1..MaxCells \div len(envs) frames: one wrapper of up to 4 frames, or two
\* wrappers of up to 2 frames each.
Init ==
  /\ metric = <<>> /\ metric_dtype = "float32"
  /\ num_batch \in 1..MaxBatch
  /\ InitCommon(MaxCells \div num_batch)
  /\ pc = "start"
  /\ num_episodes \in 0..MaxEpisodes
  /\ num_steps \in 0..MaxSteps

wrapperVars == <<envs, last_call>>
histVars == <<env_called, round_resets, round_steps, first_done, raw_before, ticks>>

\* line 325, assertion fails: AssertionError leaves the function.
AssertFails ==
  /\ pc = "start"
  /\ ~AssertHolds(num_episodes, num_batch)
  /\ pc' = "raised"
  /\ error' = "AssertionError"
  /\ UNCHANGED <<wrapperVars, histVars, num_episodes, num_batch, num_steps, c, t,
                 i, obs_list, obs, actions, step_results, rew_sum, done,
                 done_prev, rew_sum_list, result>>
  /\ UNCHANGED <<seedVars, policy_calls, close_calls, orderVars, metricVars>>

\* line 328: num_episodes values of random.randint.  The code never looks
\* at a seed, it only hands it on; a drawn value is named by the ordinal of
\* its draw, so that two draws are never confused.
DrawSeeds(ne) == [j \in 1..ne |-> j]

\* Variant of RoundSeeds: every round takes the first num_batch seeds.
RoundSeedsFirst(sl, round, nb) == SubSeq(sl, 1, nb)

\* line 333: seeds_list[c * num_batch:(c + 1) * num_batch]
RoundSeeds(sl, round, nb) == SubSeq(sl, round * nb + 1, (round + 1) * nb)

\* lines 325-331, assertion holds: rew_sum_list = [] and the round loop starts.
Start ==
  /\ pc = "start"
  /\ AssertHolds(num_episodes, num_batch)
  /\ rew_sum_list' = <<>>
  /\ c' = 0
  /\ pc' = "round"
  /\ seeds_list' = DrawSeeds(num_episodes)
  /\ seed_uses' = ZeroVec(num_episodes)
  /\ UNCHANGED <<wrapperVars, histVars, num_episodes, num_batch, num_steps, t, i,
                 error, obs_list, obs, actions, step_results, rew_sum, done,
                 done_prev, result>>
  /\ UNCHANGED <<seeds, rng_seed, reset_seed, policy_calls, close_calls,
                 orderVars, metricVars>>

\* line 332-335: the next round begins; the reset comprehension starts.
BeginRound ==
  /\ pc = "round"
  /\ c < NumRounds(num_episodes, num_batch)
  /\ i' = 1
  /\ obs_list' = <<>>
  /\ pc' = "reset"
  /\ round_resets' = ZeroVec(num_batch)
  /\ round_steps' = ZeroVec(num_batch)
  /\ first_done' = [k \in Slots |-> -1]
  /\ raw_before' = ZeroVec(num_batch)
  /\ ticks' = 0
  /\ policy_calls' = 0
  /\ pre_envs' = <<>> /\ pre_rew_sum' = <<>> /\ step_calls' = <<>>
  /\ seeds' = RoundSeeds(seeds_list, c, num_batch)
  /\ rng_seed' = seeds'[1]
  /\ reset_seed' = ZeroVec(num_batch)
  /\ UNCHANGED <<wrapperVars, env_called, num_episodes, num_batch, num_steps, c,
                 t, error, obs, actions, step_results, rew_sum, done, done_prev,
                 rew_sum_list, result>>
  /\ UNCHANGED <<seeds_list, seed_uses, close_calls, metricVars>>

\* line 336, one element of the comprehension: envs[i].reset(seed=...).
ResetEnv ==
  /\ pc = "reset"
  /\ i <= num_batch
  /\ LET o == EnvFrame(i, 0) IN
       /\ envs' = [envs EXCEPT ![i] = WrapperReset(@, o)]
       /\ obs_list' = Append(obs_list, GetObs(envs'[i]))
  /\ last_call' = last_call
  /\ i' = i + 1
  /\ env_called' = TRUE
  /\ round_resets' = [round_resets EXCEPT ![i] = @ + 1]
  /\ reset_seed' = [reset_seed EXCEPT ![i] = seeds[i]]
  /\ seed_uses' = [seed_uses EXCEPT ![seeds[i]] = @ + 1]
  /\ UNCHANGED <<num_episodes, num_batch, num_steps, pc, error, c, t, obs,
                 actions, step_results, rew_sum, done, done_prev, rew_sum_list,
                 result, round_steps, first_done, raw_before, ticks>>
  /\ UNCHANGED <<seeds_list, seeds, rng_seed, policy_calls, close_calls,
                 orderVars, metricVars>>

\* line 336, the raw reset raises: the fault leaves _batch_rollout.
ResetFault ==
  /\ pc = "reset"
  /\ i <= num_batch
  /\ last_call' = last_call
  /\ env_called' = TRUE
  /\ round_resets' = [round_resets EXCEPT ![i] = @ + 1]
  /\ pc' = "raised"
  /\ error' = "EnvironmentFault"
  /\ reset_seed' = [reset_seed EXCEPT ![i] = seeds[i]]
  /\ seed_uses' = [seed_uses EXCEPT ![seeds[i]] = @ + 1]
  /\ UNCHANGED <<envs, num_episodes, num_batch, num_steps, c, t, i, obs_list,
                 obs, actions, step_results, rew_sum, done, done_prev,
                 rew_sum_list, result, round_steps, first_done, raw_before,
                 ticks>>
  /\ UNCHANGED <<seeds_list, seeds, rng_seed, policy_calls, close_calls,
                 orderVars, metricVars>>

\* Variant of InitRound: rew_sum and done are created once, before the
\* first round, and kept from round to round.
InitRoundKeep ==
  /\ pc = "reset"
  /\ i > num_batch
  /\ obs' = obs_list
  /\ rew_sum' = IF c = 0 THEN ZeroVec(num_batch) ELSE rew_sum
  /\ done' = IF c = 0 THEN ZeroVec(num_batch) ELSE done
  /\ t' = 0
  /\ pc' = "tick"
  /\ UNCHANGED <<wrapperVars, histVars, num_episodes, num_batch, num_steps, c, i,
                 error, obs_list, actions, step_results, done_prev,
                 rew_sum_list, result>>
  /\ UNCHANGED <<seedVars, policy_calls, close_calls, orderVars, metricVars>>

\* lines 337-341: batch the windows, zero rew_sum and done, enter the tick loop.
InitRound ==
  /\ pc = "reset"
  /\ i > num_batch
  /\ obs' = obs_list
  /\ rew_sum' = ZeroVec(num_batch)
  /\ done' = ZeroVec(num_batch)
  /\ t' = 0
  /\ pc' = "tick"
  /\ UNCHANGED <<wrapperVars, histVars, num_episodes, num_batch, num_steps, c, i,
                 error, obs_list, actions, step_results, done_prev,
                 rew_sum_list, result>>
  /\ UNCHANGED <<seedVars, policy_calls, close_calls, orderVars, metricVars>>

\* lines 341-345: next tick; done_prev = done; the policy returns the actions.
Policy ==
  /\ pc = "tick"
  /\ t < num_steps
  /\ done_prev' = done
  /\ actions' \in [Slots -> ActionValues]
  /\ step_results' = <<>>
  /\ i' = 1
  /\ pc' = "step"
  /\ policy_calls' = policy_calls + 1
  /\ UNCHANGED <<wrapperVars, histVars, num_episodes, num_batch, num_steps, c, t,
                 error, obs_list, obs, rew_sum, done, rew_sum_list, result>>
  /\ UNCHANGED <<seedVars, close_calls, orderVars, metricVars>>

\* line 348, one element of the comprehension: envs[i].step(actions[i]).
StepEnv ==
  /\ pc = "step"
  /\ i <= num_batch
  /\ \E r \in RewardValues, d \in BOOLEAN :
       /\ envs' = [envs EXCEPT ![i] =
            WrapperStep(@, actions[i], EnvFrame(i, t + 1), r, d, "info")]
       /\ step_results' = Append(step_results,
            [obs |-> GetObs(envs'[i]), rew |-> r, done |-> d])
       /\ last_call' = last_call
       /\ first_done' = [first_done EXCEPT ![i] = IF @ = -1 /\ d THEN t ELSE @]
       /\ raw_before' = [raw_before EXCEPT ![i] =
            IF first_done[i] = -1 /\ ~d THEN @ + r ELSE @]
  /\ i' = i + 1
  /\ env_called' = TRUE
  /\ round_steps' = [round_steps EXCEPT ![i] = @ + 1]
  /\ UNCHANGED <<num_episodes, num_batch, num_steps, pc, error, c, t, obs_list,
                 obs, actions, rew_sum, done, done_prev, rew_sum_list, result,
                 round_resets, ticks>>
  /\ UNCHANGED <<seedVars, policy_calls, close_calls, orderVars, metricVars>>

\* line 348, the raw step raises: the fault leaves _batch_rollout.
StepFaultSwallowed ==
  /\ pc = "step"
  /\ i <= num_batch
  /\ envs' = [envs EXCEPT ![i] = StepSetAction(@, actions[i])]
  /\ last_call' = last_call
  /\ env_called' = TRUE
  /\ round_steps' = [round_steps EXCEPT ![i] = @ + 1]
  /\ pc' = "step"
  /\ error' = "EnvironmentFault"
  /\ UNCHANGED <<num_episodes, num_batch, num_steps, c, t, i, obs_list, obs,
                 actions, step_results, rew_sum, done, done_prev, rew_sum_list,
                 result, round_resets, first_done, raw_before, ticks>>
  /\ UNCHANGED <<seedVars, policy_calls, close_calls, orderVars, metricVars>>

StepFault ==
  /\ pc = "step"
  /\ i <= num_batch
  /\ envs' = [envs EXCEPT ![i] = StepSetAction(@, actions[i])]
  /\ last_call' = last_call
  /\ env_called' = TRUE
  /\ round_steps' = [round_steps EXCEPT ![i] = @ + 1]
  /\ pc' = "raised"
  /\ error' = "EnvironmentFault"
  /\ UNCHANGED <<num_episodes, num_batch, num_steps, c, t, i, obs_list, obs,
                 actions, step_results, rew_sum, done, done_prev, rew_sum_list,
                 result, round_resets, first_done, raw_before, ticks>>
  /\ UNCHANGED <<seedVars, policy_calls, close_calls, orderVars, metricVars>>

\* Variant of Account: the windows returned by the steps are not re-batched,
\* so the next policy call sees the windows of the tick before.
AccountStaleObs ==
  /\ pc = "step"
  /\ i > num_batch
  /\ obs_list' = [k \in Slots |-> step_results[k].obs]
  /\ obs' = obs
  /\ done' = [k \in Slots |-> LogicalOr(step_results[k].done, done_prev[k])]
  /\ rew_sum' = [k \in Slots |->
       rew_sum[k] + MaskReward(step_results[k].rew, done'[k])]
  /\ ticks' = ticks + 1
  /\ IF AllDone(done')
       THEN pc' = "end_round" /\ t' = t
       ELSE pc' = "tick" /\ t' = t + 1
  /\ UNCHANGED <<wrapperVars, env_called, round_resets, round_steps, first_done,
                 raw_before, num_episodes, num_batch, num_steps, c, i, error,
                 actions, step_results, done_prev, rew_sum_list, result>>
  /\ UNCHANGED <<seedVars, policy_calls, close_calls, orderVars, metricVars>>

\* lines 349-364: re-batch, latch done, mask and add the rewards, maybe break.
Account ==
  /\ pc = "step"
  /\ i > num_batch
  /\ obs_list' = [k \in Slots |-> step_results[k].obs]
  /\ obs' = obs_list'
  /\ done' = [k \in Slots |-> LogicalOr(step_results[k].done, done_prev[k])]
  /\ rew_sum' = [k \in Slots |->
       rew_sum[k] + MaskReward(step_results[k].rew, done'[k])]
  /\ ticks' = ticks + 1
  /\ IF AllDone(done')
       THEN pc' = "end_round" /\ t' = t
       ELSE pc' = "tick" /\ t' = t + 1
  /\ UNCHANGED <<wrapperVars, env_called, round_resets, round_steps, first_done,
                 raw_before, num_episodes, num_batch, num_steps, c, i, error,
                 actions, step_results, done_prev, rew_sum_list, result>>
  /\ UNCHANGED <<seedVars, policy_calls, close_calls, orderVars, metricVars>>

\* line 341: range(num_steps) is exhausted.
BudgetExhausted ==
  /\ pc = "tick"
  /\ t >= num_steps
  /\ pc' = "end_round"
  /\ UNCHANGED <<wrapperVars, histVars, num_episodes, num_batch, num_steps, c, t,
                 i, error, obs_list, obs, actions, step_results, rew_sum, done,
                 done_prev, rew_sum_list, result>>
  /\ UNCHANGED <<seedVars, policy_calls, close_calls, orderVars, metricVars>>

\* line 366: rew_sum_list.append(rew_sum)
EndRound ==
  /\ pc = "end_round"
  /\ rew_sum_list' = Append(rew_sum_list, rew_sum)
  /\ c' = c + 1
  /\ pc' = "round"
  /\ UNCHANGED <<wrapperVars, histVars, num_episodes, num_batch, num_steps, t, i,
                 error, obs_list, obs, actions, step_results, rew_sum, done,
                 done_prev, result>>
  /\ UNCHANGED <<seedVars, policy_calls, close_calls, orderVars, metricVars>>

\* line 367: np.concatenate raises ValueError on an empty list of arrays.
Return ==
  /\ pc = "round"
  /\ c >= NumRounds(num_episodes, num_batch)
  /\ IF rew_sum_list = <<>>
       THEN pc' = "raised" /\ error' = "ValueError" /\ result' = result
       ELSE pc' = "returned" /\ error' = error
            /\ result' = Concatenate(rew_sum_list)
  /\ UNCHANGED <<wrapperVars, histVars, num_episodes, num_batch, num_steps, c, t,
                 i, obs_list, obs, actions, step_results, rew_sum, done,
                 done_prev, rew_sum_list>>
  /\ UNCHANGED <<seedVars, policy_calls, close_calls, orderVars, metricVars>>

\* line 385: [env.close() for env in envs], reached only when line 384
\* returned; the environments are closed in list order.
ClosedCount == Cardinality({k \in Slots : close_calls[k] > 0})

CloseEnv ==
  /\ pc = "returned"
  /\ ClosedCount < num_batch
  /\ close_calls' = [close_calls EXCEPT ![ClosedCount + 1] = @ + 1]
  /\ UNCHANGED <<wrapperVars, histVars, num_episodes, num_batch, num_steps, pc,
                 error, c, t, i, obs_list, obs, actions, step_results, rew_sum,
                 done, done_prev, rew_sum_list, result>>
  /\ UNCHANGED <<seedVars, policy_calls, orderVars, metricVars>>

\* after line 385 the script goes on to print the metrics.
AllClosed ==
  /\ pc = "returned"
  /\ ClosedCount = num_batch
  /\ pc' = "closed"
  /\ UNCHANGED <<wrapperVars, histVars, num_episodes, num_batch, num_steps,
                 error, c, t, i, obs_list, obs, actions, step_results, rew_sum,
                 done, done_prev, rew_sum_list, result>>
  /\ UNCHANGED <<seedVars, policy_calls, close_calls, orderVars, metricVars>>

Next ==
  \/ AssertFails
  \/ Start
  \/ BeginRound
  \/ ResetEnv
  \/ ResetFault
  \/ InitRound
  \/ Policy
  \/ StepEnv
  \/ StepFault
  \/ Account
  \/ BudgetExhausted
  \/ EndRound
  \/ Return
  \/ CloseEnv
  \/ AllClosed

Spec == Init /\ [][Next]_vars

\* ---- the rollout with the step calls of a tick interleaved ----------------
\* Line 348 steps the environments in list order, one call after the other.
\* Here the N calls of a tick are made in an arbitrary order and their
\* statements are interleaved: a call writes its action (line 85), waits for
\* its raw environment (line 86), then stores the reward and appends the new
\* timestep (lines 88-95), and between any two of these the calls of other
\* slots may run.  Each result is stored at its own slot; everything else is
\* the rollout above.

NoStep == [stage |-> "idle", obs |-> 0, rew |-> 0, done |-> FALSE]

\* lines 341-345, remembering the wrappers and rew_sum the tick starts from.
PolicyAny ==
  /\ pc = "tick"
  /\ t < num_steps
  /\ done_prev' = done
  /\ actions' \in [Slots -> ActionValues]
  /\ step_results' = <<>>
  /\ i' = 1
  /\ pc' = "step"
  /\ policy_calls' = policy_calls + 1
  /\ pre_envs' = envs
  /\ pre_rew_sum' = rew_sum
  /\ step_calls' = [k \in Slots |-> NoStep]
  /\ UNCHANGED <<wrapperVars, histVars, num_episodes, num_batch, num_steps, c, t,
                 error, obs_list, obs, rew_sum, done, rew_sum_list, result>>
  /\ UNCHANGED <<seedVars, close_calls, metricVars>>

\* lines 348 and 85: the call envs[k].step(actions[k]) of a slot not yet
\* stepped in this tick begins and writes the action into the newest slot.
StepAnyAct(k) ==
  /\ pc = "step"
  /\ step_calls[k].stage = "idle"
  /\ envs' = [envs EXCEPT ![k] = StepSetAction(@, actions[k])]
  /\ last_call' = last_call
  /\ step_calls' = [step_calls EXCEPT ![k].stage = "acted"]
  /\ UNCHANGED <<histVars, num_episodes, num_batch, num_steps, pc, error, c, t,
                 i, obs_list, obs, actions, step_results, rew_sum, done,
                 done_prev, rew_sum_list, result>>
  /\ UNCHANGED <<seedVars, policy_calls, close_calls, pre_envs, pre_rew_sum,
                 metricVars>>

\* line 86: the raw environment of slot k returns its frame, reward and done.
StepAnyRaw(k) ==
  /\ pc = "step"
  /\ step_calls[k].stage = "acted"
  /\ \E r \in RewardValues, d \in BOOLEAN :
       /\ step_calls' = [step_calls EXCEPT ![k] =
            [stage |-> "raw", obs |-> EnvFrame(k, t + 1), rew |-> r, done |-> d]]
       /\ first_done' = [first_done EXCEPT ![k] = IF @ = -1 /\ d THEN t ELSE @]
       /\ raw_before' = [raw_before EXCEPT ![k] =
            IF first_done[k] = -1 /\ ~d THEN @ + r ELSE @]
  /\ env_called' = TRUE
  /\ round_steps' = [round_steps EXCEPT ![k] = @ + 1]
  /\ UNCHANGED <<wrapperVars, num_episodes, num_batch, num_steps, pc, error, c,
                 t, i, obs_list, obs, actions, step_results, rew_sum, done,
                 done_prev, rew_sum_list, result, round_resets, ticks>>
  /\ UNCHANGED <<seedVars, policy_calls, close_calls, pre_envs, pre_rew_sum,
                 metricVars>>

\* line 86, the raw step of slot k raises: the action slot is already
\* written and the fault leaves _batch_rollout.
StepAnyFault(k) ==
  /\ pc = "step"
  /\ step_calls[k].stage = "acted"
  /\ env_called' = TRUE
  /\ round_steps' = [round_steps EXCEPT ![k] = @ + 1]
  /\ pc' = "raised"
  /\ error' = "EnvironmentFault"
  /\ UNCHANGED <<wrapperVars, num_episodes, num_batch, num_steps, c, t, i,
                 obs_list, obs, actions, step_results, rew_sum, done, done_prev,
                 rew_sum_list, result, round_resets, first_done, raw_before,
                 ticks>>
  /\ UNCHANGED <<seedVars, policy_calls, close_calls, orderVars, metricVars>>

\* Variant of StepAnyReturn: the wrappers were built around one shared
\* obs_stack deque, so the frame appended by one call is appended to the
\* window of every wrapper.
StepAnyReturnShared(k) ==
  /\ pc = "step"
  /\ step_calls[k].stage = "raw"
  /\ LET sc == step_calls[k]
         own == StepStore(envs[k], sc.obs, sc.rew, "info")
     IN /\ envs' = [j \in Slots |->
             IF j = k THEN own
             ELSE [envs[j] EXCEPT !.obs_stack =
                     DequeAppend(@, sc.obs, envs[j].num_stack_frames)]]
        /\ step_results' = (k :> [obs |-> GetObs(envs'[k]), rew |-> sc.rew,
                                  done |-> sc.done]) @@ step_results
  /\ last_call' = last_call
  /\ step_calls' = [step_calls EXCEPT ![k].stage = "returned"]
  /\ i' = i + 1
  /\ UNCHANGED <<histVars, num_episodes, num_batch, num_steps, pc, error, c, t,
                 obs_list, obs, actions, rew_sum, done, done_prev, rew_sum_list,
                 result>>
  /\ UNCHANGED <<seedVars, policy_calls, close_calls, pre_envs, pre_rew_sum,
                 metricVars>>

\* lines 88-95: the call of slot k stores the reward, appends the new
\* timestep and returns (window, reward, done); i counts the calls returned.
StepAnyReturn(k) ==
  /\ pc = "step"
  /\ step_calls[k].stage = "raw"
  /\ LET sc == step_calls[k] IN
       /\ envs' = [envs EXCEPT ![k] = StepStore(@, sc.obs, sc.rew, "info")]
       /\ step_results' = (k :> [obs |-> GetObs(envs'[k]), rew |-> sc.rew,
                                 done |-> sc.done]) @@ step_results
  /\ last_call' = last_call
  /\ step_calls' = [step_calls EXCEPT ![k].stage = "returned"]
  /\ i' = i + 1
  /\ UNCHANGED <<histVars, num_episodes, num_batch, num_steps, pc, error, c, t,
                 obs_list, obs, actions, rew_sum, done, done_prev, rew_sum_list,
                 result>>
  /\ UNCHANGED <<seedVars, policy_calls, close_calls, pre_envs, pre_rew_sum,
                 metricVars>>

NextAnyOrder ==
  \/ AssertFails
  \/ Start
  \/ BeginRound
  \/ ResetEnv
  \/ ResetFault
  \/ InitRound
  \/ PolicyAny
  \/ \E k \in Slots : StepAnyAct(k)
  \/ \E k \in Slots : StepAnyRaw(k)
  \/ \E k \in Slots : StepAnyFault(k)
  \/ \E k \in Slots : StepAnyReturn(k)
  \/ Account
  \/ BudgetExhausted
  \/ EndRound
  \/ Return
  \/ CloseEnv
  \/ AllClosed

\* The interleaved rollout is followed through its first round: a rollout of
\* num_episodes <= len(envs) episodes fails the assertion of line 325, runs
\* no round, or runs one round.
InitAnyOrder == Init /\ num_episodes <= num_batch

SpecAnyOrder == InitAnyOrder /\ [][NextAnyOrder]_vars

\* ==== Properties of SequenceEnvironmentWrapper (checked under SpecWrapper) ====

\* The calls made so far on wrapper k are reset and step calls only: its
\* owner has not called pad_current_episode.
OnlyResetAndStep(k) == last_call[k].direct_pads = 0

\* C3: after any sequence of reset and step calls on a wrapper of capacity
\* N >= 1, obs_stack, act_stack, rew_stack and done_stack have the same
\* length, and that length is at most N.  (A step that follows a direct
\* pad_current_episode on a window that is not full makes the first three
\* longer than done_stack; such call sequences are not the claim's.)
C3_EqualLengths ==
  \A k \in Slots : OnlyResetAndStep(k) =>
    LET w == envs[k] IN
      /\ Len(w.obs_stack) = Len(w.act_stack)
      /\ Len(w.act_stack) = Len(w.rew_stack)
      /\ Len(w.rew_stack) = Len(w.done_stack)
      /\ Len(w.obs_stack) <= w.num_stack_frames

\* C3 witness: a full window of capacity 3 after a step that followed a step
\* with action 1.
C3_Witness ==
  \E k \in Slots :
    /\ OnlyResetAndStep(k)
    /\ envs[k].num_stack_frames = 3
    /\ Len(envs[k].obs_stack) = 3
    /\ last_call[k].op = "step" /\ ~last_call[k].raised
    /\ last_call[k].before.actions[1] = 1

\* C4 (as claimed): the four sequences describe the same timesteps: they have
\* the same length and the terminal-flag at every window position is the one
\* pushed with the timestep whose observation is at that position (true for a
\* pad timestep, false for a timestep pushed by reset or step).
C4_FlagsAligned ==
  \A k \in Slots : OnlyResetAndStep(k) =>
    LET w == envs[k] IN
      /\ Len(w.done_stack) = Len(w.obs_stack)
      /\ \A p \in 1..Len(w.obs_stack) :
           (w.done_stack[p] = 1) <=> (w.ts_kind[p] = "pad")

\* C5: immediately after every reset call that returns, the window holds
\* exactly capacity entries, the first capacity-1 terminal-flags are true and
\* the last one is false.
C5_AfterReset ==
  \A k \in Slots :
    (last_call[k].op = "reset" /\ ~last_call[k].raised) =>
      LET w == envs[k]
          n == w.num_stack_frames IN
        /\ Len(w.obs_stack) = n /\ Len(w.act_stack) = n
        /\ Len(w.rew_stack) = n /\ Len(w.done_stack) = n
        /\ \A p \in 1..(n - 1) : w.done_stack[p] = 1
        /\ w.done_stack[n] = 0

\* C5 witness: a reset of a capacity-3 wrapper made after a step of an
\* earlier episode.
C5_Witness ==
  \E k \in Slots :
    /\ OnlyResetAndStep(k)
    /\ envs[k].num_stack_frames = 3
    /\ last_call[k].op = "reset" /\ ~last_call[k].raised
    /\ last_call[k].before.observations = <<0, 1, 2>>
    /\ last_call[k].before.actions = <<0, 1, 0>>

\* C6: for capacity >= 2, immediately after a step(a) call that returns, the
\* window's action at position capacity-2 is a and its reward at that
\* position is the reward returned by that call.
C6_CausalShift ==
  \A k \in Slots :
    (/\ OnlyResetAndStep(k)
     /\ envs[k].num_stack_frames >= 2
     /\ last_call[k].op = "step" /\ ~last_call[k].raised) =>
      LET w == envs[k]
          n == w.num_stack_frames IN
        /\ w.act_stack[n - 1] = last_call[k].action
        /\ w.rew_stack[n - 1] = last_call[k].rew

\* C6 witness: a second consecutive step with a non-zero action and reward.
C6_Witness ==
  \E k \in Slots :
    /\ OnlyResetAndStep(k)
    /\ envs[k].num_stack_frames = 3
    /\ last_call[k].op = "step" /\ ~last_call[k].raised
    /\ last_call[k].before.actions[1] = 1
    /\ last_call[k].action # 0 /\ last_call[k].rew # 0

\* ==== Properties of _batch_rollout (checked under Spec) ====================

\* A round's tick loop has been entered and its result is not yet appended.
InRound == pc \in {"tick", "step", "end_round"}

Max2(a, b) == IF a >= b THEN a ELSE b
Min2(a, b) == IF a <= b THEN a ELSE b

RECURSIVE MaxOf(_)
MaxOf(f) == IF Len(f) = 1 THEN f[1] ELSE Max2(Head(f), MaxOf(Tail(f)))

\* C1: within a round, once a slot's latched done flag is true it stays true
\* and the slot's rew_sum keeps its value over every later step of the round,
\* whatever raw done and raw reward values later step calls return.
C1_LatchMonotone ==
  [][InRound =>
       \A k \in Slots :
         done[k] = 1 => (done'[k] = 1 /\ rew_sum'[k] = rew_sum[k])]_vars

\* C1 witness: after a tick in which an already latched slot received raw
\* done = false together with a non-zero raw reward.
C1_Witness ==
  /\ pc \in {"tick", "end_round"}
  /\ ticks >= 2
  /\ \E k \in Slots :
       /\ first_done[k] >= 0 /\ first_done[k] < ticks - 1
       /\ done[k] = 1
       /\ ~step_results[k].done
       /\ step_results[k].rew # 0

\* C2: at the end of a round each slot's rew_sum is the sum of the raw rewards
\* of the ticks strictly before the first tick at which its raw done was true
\* (all executed ticks if its raw done was never true); the reward of the
\* terminating tick is not credited.
C2_CreditBeforeDone ==
  pc = "end_round" => \A k \in Slots : rew_sum[k] = raw_before[k]

\* C2 witness: a round ends with one slot that terminated on its second tick
\* with a non-zero terminal reward after a credited reward, and one slot that
\* never terminated and was credited on every tick.
C2_Witness ==
  /\ pc = "end_round"
  /\ num_batch = 2
  /\ ticks = 2
  /\ \E k, j \in Slots :
       /\ first_done[k] = 1 /\ step_results[k].rew # 0 /\ rew_sum[k] # 0
       /\ first_done[j] = -1 /\ rew_sum[j] = 2

\* C7: with num_episodes not a multiple of len(envs), _batch_rollout fails
\* before any stepping: no raw reset or step is ever called and nothing is
\* returned.
C7_NoCallsOnBadConfig ==
  (num_episodes % num_batch # 0) =>
    /\ ~env_called
    /\ pc \in {"start", "raised"}
    /\ (pc = "raised" => error = "AssertionError")
    /\ result = <<>>

\* C7 witness: the assertion has failed.
C7_Witness == pc = "raised" /\ error = "AssertionError"

\* Number of ticks the claim expects of the round, from the ticks at which the
\* slots' raw done was first true.
ExpectedTicks ==
  IF \A k \in Slots : first_done[k] >= 0
    THEN Min2(num_steps, 1 + MaxOf(first_done))
    ELSE num_steps

\* C8: a round's tick loop ends right after the first tick at which all slots
\* are latched, otherwise after num_steps ticks; no tick starts once all slots
\* are latched, so the round has min(num_steps, 1 + largest first-done tick)
\* ticks.
C8_TickCount ==
  /\ (pc = "end_round" => ticks = ExpectedTicks)
  /\ (pc = "step" => (ticks < num_steps /\ ~AllDone(done)))
  /\ (pc = "tick" /\ ticks > 0 => ~AllDone(done))

\* C8 witness: a round of two slots that ends early, after its first tick.
C8_Witness ==
  /\ pc = "end_round"
  /\ num_batch = 2
  /\ num_steps = 2
  /\ ticks = 1

\* C9 (as claimed): when num_episodes is a multiple of len(envs) and no
\* environment fault occurs, _batch_rollout runs num_episodes / len(envs)
\* rounds and returns num_episodes values, the value at index c*N + i being
\* slot i's rew_sum of round c.
C9_ResultLayout ==
  (/\ num_episodes % num_batch = 0
   /\ pc \in {"returned", "raised"}
   /\ error # "EnvironmentFault") =>
    /\ pc = "returned"
    /\ c = num_episodes \div num_batch
    /\ Len(rew_sum_list) = c
    /\ Len(result) = num_episodes
    /\ \A r \in 0..(c - 1) : \A k \in Slots :
         result[r * num_batch + k] = rew_sum_list[r + 1][k]

\* Supplement to C9: the layout holds whenever _batch_rollout returns, which
\* it does for every positive multiple of len(envs) without a fault.
C9_PositiveLayout ==
  /\ (pc = "returned" =>
        /\ num_episodes > 0
        /\ c = num_episodes \div num_batch
        /\ Len(rew_sum_list) = c
        /\ Len(result) = num_episodes
        /\ \A r \in 0..(c - 1) : \A k \in Slots :
             result[r * num_batch + k] = rew_sum_list[r + 1][k])
  /\ (pc = "raised" /\ error = "ValueError" => num_episodes = 0)

\* The rounds collected so far stay as they are.
CollectedKept ==
  /\ Len(rew_sum_list') >= Len(rew_sum_list)
  /\ \A r \in 1..Len(rew_sum_list) : rew_sum_list'[r] = rew_sum_list[r]

\* C10: when a round's tick loop is entered every slot has rew_sum 0 and
\* done 0; in every round reset is called exactly once on every wrapper
\* before any step call of the round; rounds already collected are never
\* changed.
C10_RoundIsolation ==
  /\ [](/\ (pc = "tick" /\ ticks = 0) =>
             \A k \in Slots : rew_sum[k] = 0 /\ done[k] = 0
        /\ \A k \in Slots : round_resets[k] <= 1
        /\ InRound => \A k \in Slots : round_resets[k] = 1
        /\ (\E k \in Slots : round_steps[k] > 0) =>
             \A j \in Slots : round_resets[j] = 1)
  /\ [][CollectedKept]_vars

\* C10 witness: the second round's tick loop is entered after a first round
\* that ended with a non-zero cumulative reward.
C10_Witness ==
  /\ pc = "tick" /\ ticks = 0
  /\ c = 1
  /\ \E k \in Slots : rew_sum_list[1][k] # 0

\* ---------------------------------------------------------------------
\* C11: when an environment's reset or step raises during a round, the
\* rollout ends with that fault: nothing is returned (the rewards summed so
\* far are lost), and from then on no wrapper is reset or stepped again, the
\* faulting call included.
C11_AbortedRound ==
  error = "EnvironmentFault" =>
    /\ pc = "raised"
    /\ result = <<>>

C11_NoCallAfterFault ==
  error = "EnvironmentFault" =>
    /\ envs' = envs
    /\ round_resets' = round_resets
    /\ round_steps' = round_steps
    /\ result' = result

C11_FaultPropagates == []C11_AbortedRound /\ [][C11_NoCallAfterFault]_vars

\* a step raised in the second round, after a tick of that round had already
\* credited a reward and an earlier round had been collected.
C11_Witness ==
  /\ pc = "raised" /\ error = "EnvironmentFault"
  /\ c = 1 /\ ticks = 1
  /\ \E k \in Slots : rew_sum[k] > 0 /\ round_steps[k] = 2
  /\ Len(rew_sum_list) = 1

\* ---------------------------------------------------------------------
\* C12: whenever the program has ended, normally or by an exception that no
\* one catches, close() has been called exactly once on every environment;
\* and close() is never called before the rollout has returned.
C12_ClosedExactlyOnce ==
  /\ pc \in {"closed", "raised"} => \A k \in Slots : close_calls[k] = 1
  /\ (\E k \in Slots : close_calls[k] > 0) => pc \in {"returned", "closed"}

\* the part that does hold: on a normal return every environment is closed
\* once, after all rounds.
C12_ClosedOnReturn ==
  /\ pc = "closed" => \A k \in Slots : close_calls[k] = 1
  /\ (\E k \in Slots : close_calls[k] > 0) =>
       pc \in {"returned", "closed"} /\ c = NumRounds(num_episodes, num_batch)
  /\ \A k \in Slots : close_calls[k] <= 1

\* ---------------------------------------------------------------------
\* The calls on a wrapper that returned a window to the caller.
Returned(k) == last_call[k].op \in {"reset", "step"} /\ ~last_call[k].raised

\* C13 as stated: the window returned by reset and by every step holds four
\* sequences (observations, actions, rewards, terminal flags), each as long
\* as the capacity.
C13_FourSequences ==
  \A k \in Slots : (Returned(k) /\ OnlyResetAndStep(k)) =>
    LET win == last_call[k].window IN
      /\ DOMAIN win = {"observations", "actions", "rewards", "terminals"}
      /\ \A f \in DOMAIN win : Len(win[f]) = envs[k].num_stack_frames

\* C13, amended: on a wrapper used through reset and step only, the window
\* returned by reset and by every step holds the three sequences
\* observations, actions and rewards and no terminal flags; each is as long
\* as the capacity and runs oldest first (the frame just received is last,
\* the frames that a step did not drop from the window have moved one place
\* down); taking it leaves the wrapper as it was, so that a second snapshot
\* is equal to the first.
C13_ThreeSequences ==
  \A k \in Slots : (Returned(k) /\ OnlyResetAndStep(k)) =>
    LET win == last_call[k].window
        bef == last_call[k].before
        n == envs[k].num_stack_frames
    IN /\ DOMAIN win = {"observations", "actions", "rewards"}
       /\ \A f \in DOMAIN win : Len(win[f]) = n
       /\ win.observations[n] = last_call[k].obs
       /\ (last_call[k].op = "step") =>
            /\ Len(bef.observations) = n - 1
            /\ \A p \in 1..(n - 1) : win.observations[p] = bef.observations[p]
       /\ GetObs(envs[k]) = win
       /\ win = [observations |-> envs[k].obs_stack,
                 actions |-> envs[k].act_stack,
                 rewards |-> envs[k].rew_stack]
       /\ Len(envs[k].done_stack) = n

\* a step returned a window of three different observations.
C13_Witness ==
  \E k \in Slots :
    /\ Returned(k) /\ OnlyResetAndStep(k) /\ last_call[k].op = "step"
    /\ last_call[k].window.observations = <<0, 1, 2>>
    /\ last_call[k].window.actions = <<0, 1, 0>>

\* ---- print_metrics -------------------------------------------------------
\* Scores are whole numbers; a printed value is the number of hundredths
\* shown by the format :.2f.  numpy computes in the dtype of the array it
\* is given: float32 for the array returned by _batch_rollout, float64 for
\* a list of Python numbers.

RECURSIVE SeqSum(_)
SeqSum(s) == IF s = <<>> THEN 0 ELSE Head(s) + SeqSum(Tail(s))

RECURSIVE Insert(_, _)
Insert(x, s) ==
  IF s = <<>> THEN <<x>>
  ELSE IF x <= Head(s) THEN <<x>> \o s
  ELSE <<Head(s)>> \o Insert(x, Tail(s))

RECURSIVE Sort(_)
Sort(s) == IF s = <<>> THEN <<>> ELSE Insert(Head(s), Sort(Tail(s)))

RECURSIVE BitLen(_)
BitLen(n) == IF n = 0 THEN 0 ELSE 1 + BitLen(n \div 2)

\* Binary long division of r / den: the remainder left after `need` more
\* significant bits, and the last bit produced.  Leading zero bits do not
\* count until the first 1 (started).
RECURSIVE FracBits(_, _, _, _, _)
FracBits(r, den, need, started, last) ==
  IF need = 0 \/ (r = 0 /\ ~started) THEN [r |-> r, last |-> last]
  ELSE LET bit == (2 * r) \div den
           rest == (2 * r) % den
       IN IF started \/ bit = 1
            THEN FracBits(rest, den, need - 1, TRUE, bit)
            ELSE FracBits(rest, den, need, FALSE, last)

\* bits of precision of a float64 (a Python float, numpy's default dtype)
MantissaBits == 53

\* The arrays print_metrics is given: the float32 array of line 396 (rew_sum
\* is made float32 at line 338 and stays so), or a list of Python numbers,
\* which numpy takes as float64.
Dtypes == {"float32", "float64"}

\* num/den as a float of `bits` bits of precision: -1, 0 or 1 as the float
\* is below, equal to or above the exact quotient (round to nearest, ties to
\* even).
FloatError(num, den, bits) ==
  LET whole == num \div den
      f == IF whole > 0
             THEN FracBits(num % den, den, bits - BitLen(whole), TRUE,
                           whole % 2)
             ELSE FracBits(num % den, den, bits, FALSE, 0)
  IN IF f.r = 0 THEN 0
     ELSE IF 2 * f.r < den THEN -1
     ELSE IF 2 * f.r > den THEN 1
     ELSE IF f.last = 1 THEN 1 ELSE -1

\* ---- float32 arithmetic ---------------------------------------------------
\* A non-negative float32 is [m, e] with value m * 2^e, where m = 0 or
\* 2^23 <= m < 2^24.  Every operation returns the float32 nearest to the
\* exact result, ties to even, as IEEE 754 arithmetic does.

F32Zero == [m |-> 0, e |-> 0]

\* The float32 nearest to x * 2^e + (a positive amount below 2^e if sticky).
\* With sticky, x has at least 25 bits.
RECURSIVE F32Round(_, _, _)
F32Round(x, e, sticky) ==
  IF x = 0 THEN F32Zero
  ELSE IF x < 2^23 THEN F32Round(2 * x, e - 1, sticky)
  ELSE IF x < 2^24 THEN [m |-> x, e |-> e]
  ELSE IF x >= 2^25 THEN F32Round(x \div 2, e + 1, sticky \/ x % 2 = 1)
  ELSE LET mant == x \div 2
           up == x % 2 = 1 /\ (sticky \/ mant % 2 = 1)
           r == IF up THEN mant + 1 ELSE mant
       IN IF r = 2^24 THEN [m |-> 2^23, e |-> e + 2]
          ELSE [m |-> r, e |-> e + 1]

\* np.float32(k) for a whole number k >= 0
F32FromInt(k) == F32Round(k, 0, FALSE)

F32Less(a, b) ==
  IF b.m = 0 THEN FALSE
  ELSE IF a.m = 0 THEN TRUE
  ELSE a.e < b.e \/ (a.e = b.e /\ a.m < b.m)

\* b.m * 8 moved down to the exponent of a (a.e >= b.e): the whole part and
\* whether anything was cut off
F32Align(a, b) ==
  LET sh == a.e - b.e
  IN IF sh > 27 THEN [x |-> 0, sticky |-> b.m # 0]
     ELSE [x |-> (8 * b.m) \div 2^sh, sticky |-> (8 * b.m) % 2^sh # 0]

\* a + b
F32Add(a, b) ==
  IF a.m = 0 THEN b
  ELSE IF b.m = 0 THEN a
  ELSE LET hi == IF F32Less(a, b) THEN b ELSE a
           lo == IF F32Less(a, b) THEN a ELSE b
           y == F32Align(hi, lo)
       IN F32Round(8 * hi.m + y.x, hi.e - 3, y.sticky)

\* |a - b|
F32AbsDiff(a, b) ==
  IF a = b THEN F32Zero
  ELSE IF a.m = 0 THEN b
  ELSE IF b.m = 0 THEN a
  ELSE LET hi == IF F32Less(a, b) THEN b ELSE a
           lo == IF F32Less(a, b) THEN a ELSE b
           y == F32Align(hi, lo)
       IN F32Round(8 * hi.m - y.x - (IF y.sticky THEN 1 ELSE 0), hi.e - 3,
                   y.sticky)

\* a * b: the 48-bit product of the two 24-bit parts, built from 12-bit halves
F32Mul(a, b) ==
  IF a.m = 0 \/ b.m = 0 THEN F32Zero
  ELSE LET h1 == a.m \div 4096
           l1 == a.m % 4096
           h2 == b.m \div 4096
           l2 == b.m % 4096
           mid == h1 * l2 + l1 * h2
           low == l1 * l2 + (mid % 4096) * 4096
           hi == h1 * h2 + mid \div 4096 + low \div 2^24
           lo == low % 2^24
       IN F32Round(64 * hi + lo \div 2^18, a.e + b.e + 18, lo % 2^18 # 0)

\* Long division by n until the quotient q has 25 bits; r is the remainder.
RECURSIVE F32DivBits(_, _, _, _)
F32DivBits(q, r, n, e) ==
  IF q >= 2^24 THEN [q |-> q, r |-> r, e |-> e]
  ELSE F32DivBits(2 * q + (2 * r) \div n, (2 * r) % n, n, e - 1)

\* a / n for a whole number n > 0
F32DivInt(a, n) ==
  IF a.m = 0 THEN F32Zero
  ELSE LET d == F32DivBits(a.m \div n, a.m % n, n, a.e)
       IN F32Round(d.q, d.e, d.r # 0)

\* Square root digit by digit: two bits of x * 4^13 enter at every step, j
\* runs from 12 down to -13; root is the whole root so far and rem what is
\* left of the bits taken so far.
RECURSIVE F32SqrtBits(_, _, _, _)
F32SqrtBits(x, rem, root, j) ==
  IF j < -13 THEN [rem |-> rem, root |-> root]
  ELSE LET pair == IF j >= 0 THEN (x \div 4^j) % 4 ELSE 0
           r2 == 4 * rem + pair
           trial == 4 * root + 1
       IN IF r2 >= trial
            THEN F32SqrtBits(x, r2 - trial, 2 * root + 1, j - 1)
            ELSE F32SqrtBits(x, r2, 2 * root, j - 1)

\* np.sqrt(a)
F32Sqrt(a) ==
  IF a.m = 0 THEN F32Zero
  ELSE LET even == a.e % 2 = 0
           x == IF even THEN a.m ELSE 2 * a.m
           e == IF even THEN a.e ELSE a.e - 1
           s == F32SqrtBits(x, 0, 0, 12)
       IN F32Round(s.root, e \div 2 - 13, s.rem # 0)

\* np.add.reduce over a float32 array, in the order of numpy's pairwise
\* summation: fewer than 8 items are added from left to right; up to 128
\* items are added into 8 running sums r[p] (item p + 8k goes to r[p]), the
\* sums are combined as ((r1+r2)+(r3+r4))+((r5+r6)+(r7+r8)) and the items
\* left over (fewer than 8) are added one by one; a longer array is halved.
RECURSIVE F32SumLeft(_, _)
F32SumLeft(acc, s) ==
  IF s = <<>> THEN acc ELSE F32SumLeft(F32Add(acc, Head(s)), Tail(s))

RECURSIVE F32Lane(_, _, _)
F32Lane(s, p, k) ==
  IF k = 0 THEN s[p] ELSE F32Add(F32Lane(s, p, k - 1), s[p + 8 * k])

RECURSIVE F32Sum(_)
F32Sum(s) ==
  LET n == Len(s) IN
  IF n < 8 THEN F32SumLeft(F32Zero, s)
  ELSE IF n <= 128
    THEN LET full == n - (n % 8)
             r == [p \in 1..8 |-> F32Lane(s, p, full \div 8 - 1)]
             res == F32Add(F32Add(F32Add(r[1], r[2]), F32Add(r[3], r[4])),
                           F32Add(F32Add(r[5], r[6]), F32Add(r[7], r[8])))
         IN F32SumLeft(res, SubSeq(s, full + 1, n))
  ELSE LET half == n \div 2
           n2 == half - (half % 8)
       IN F32Add(F32Sum(SubSeq(s, 1, n2)), F32Sum(SubSeq(s, n2 + 1, n)))

\* f"{a:.2f}" for a float32 a, in hundredths: the exact value of a rounded to
\* two decimals, ties to even.  100 * m * 2^e is 25 * m * 2^(e + 2).
F32Fmt2(a) ==
  IF a.m = 0 THEN 0
  ELSE IF a.e >= -2 THEN 25 * a.m * 2^(a.e + 2)
  ELSE IF -a.e - 2 > 30 THEN 0
  ELSE LET k == -a.e - 2
           q == (25 * a.m) \div 2^k
           rem == (25 * a.m) % 2^k
       IN IF 2 * rem < 2^k THEN q
          ELSE IF 2 * rem > 2^k THEN q + 1
          ELSE IF q % 2 = 0 THEN q ELSE q + 1

\* f"{num/den:.2f}" for num >= 0, den > 0, in hundredths.  float64: the
\* quotient is rounded to two decimals by its exact binary value, ties to
\* even; the float can only change the result of the exact quotient at a
\* tie.  float32: num and den are float32 and so is their quotient (a sum
\* of whole numbers below 2^24 is exact in float32, in any order).
Fmt2(num, den, dtype) ==
  IF dtype = "float32" THEN F32Fmt2(F32DivInt(F32FromInt(num), den))
  ELSE
  LET q == (100 * num) \div den
      rem == (100 * num) % den
  IN IF 2 * rem < den THEN q
     ELSE IF 2 * rem > den THEN q + 1
     ELSE LET e == FloatError(num, den, MantissaBits)
          IN IF e < 0 THEN q
             ELSE IF e > 0 THEN q + 1
             ELSE IF q % 2 = 0 THEN q ELSE q + 1

\* np.mean
Mean(s) == [num |-> SeqSum(s), den |-> Len(s)]

\* np.median: the middle of the sorted values, or the mean of the two middles
Median(s) ==
  LET a == Sort(s)
      n == Len(s)
  IN IF n % 2 = 1 THEN [num |-> a[(n + 1) \div 2], den |-> 1]
     ELSE [num |-> a[n \div 2] + a[n \div 2 + 1], den |-> 2]

\* np.std printed with :.2f.  The variance is V / n^2 with
\* V = n * sum(x^2) - sum(x)^2; the value printed is the h with
\* (2h - 1)^2 <= 40000 * V / n^2 < (2h + 1)^2.
VarNum(s) ==
  Len(s) * SeqSum([p \in 1..Len(s) |-> s[p] * s[p]]) - SeqSum(s) * SeqSum(s)

Scaled(s) ==
  LET n2 == Len(s) * Len(s)
      q == VarNum(s) \div n2
      r == VarNum(s) % n2
  IN 40000 * q + (40000 * r) \div n2

RECURSIVE StdSearch(_, _, _)
StdSearch(x, lo, hi) ==
  IF lo >= hi THEN lo
  ELSE LET mid == (lo + hi + 1) \div 2
       IN IF (2 * mid - 1) * (2 * mid - 1) <= x
            THEN StdSearch(x, mid, hi)
            ELSE StdSearch(x, lo, mid - 1)

\* np.float32 array of whole numbers
F32Array(s) == [p \in 1..Len(s) |-> F32FromInt(s[p])]

\* np.std of a float32 array: arrmean = sum / n, x = arr - arrmean,
\* x = x * x, sum(x) / n, sqrt, every step in float32.
F32Std(s) ==
  LET n == Len(s)
      arr == F32Array(s)
      arrmean == F32DivInt(F32Sum(arr), n)
      x == [p \in 1..n |-> F32AbsDiff(arr[p], arrmean)]
      x2 == [p \in 1..n |-> F32Mul(x[p], x[p])]
  IN F32Sqrt(F32DivInt(F32Sum(x2), n))

\* The standard deviation is exactly h - 1/2 hundredths.
StdTie(s, h) ==
  /\ (40000 * (VarNum(s) % (Len(s) * Len(s)))) % (Len(s) * Len(s)) = 0
  /\ (2 * h - 1) * (2 * h - 1) = Scaled(s)

\* f"{np.std(s):.2f}" in hundredths.  float32: the arithmetic of np.std is
\* followed step by step.  float64: the exact standard deviation is rounded,
\* a tie to even.  The float64 error is far below the distance of the exact
\* value to a tie; an exact tie needs at least 64 scores (1.625 for 128
\* scores), and numpy's float64 arithmetic is then exact when the number of
\* scores is a power of two.  Scores are below 232 and fewer than 232.
StdFmt2(s, dtype) ==
  IF dtype = "float32" THEN F32Fmt2(F32Std(s))
  ELSE LET h == StdSearch(Scaled(s), 0, 100 * MaxOf(s))
       IN IF h % 2 = 1 /\ StdTie(s, h) THEN h - 1 ELSE h

\* proportiontocut=0.25, in hundredths
proportiontocut == 25

\* Variant of TrimMean: only the lowest values are cut.
TrimMeanLowOnly(s, cut) ==
  LET nobs == Len(s)
      lowercut == (cut * nobs) \div 100
  IN Mean(SubSeq(Sort(s), lowercut + 1, nobs))

\* scipy.stats.trim_mean(a, proportiontocut): lowercut = int(cut * nobs),
\* uppercut = nobs - lowercut, the mean of sorted a[lowercut:uppercut].
TrimMean(s, cut) ==
  LET nobs == Len(s)
      lowercut == (cut * nobs) \div 100
      uppercut == nobs - lowercut
  IN Mean(SubSeq(Sort(s), lowercut + 1, uppercut))

RECURSIVE SeqsUpTo(_, _)
SeqsUpTo(S, n) ==
  IF n = 0 THEN {<<>>}
  ELSE LET shorter == SeqsUpTo(S, n - 1)
       IN shorter \cup {Append(s, x) : s \in shorter, x \in S}

\* Arrays of eight scores: their mean can end in exactly five thousandths,
\* where the printed value depends on how the float is rounded.
EightScores == [1..8 -> {0, 1, 2}]

\* Arrays of forty scores 0 or 1, the ones first: 3/40 is 0.075, which
\* float32 rounds up and float64 down.
FortyScores == {[p \in 1..40 |-> IF p <= k THEN 1 ELSE 0] : k \in 0..40}

\* Arrays whose standard deviation a float32 computation prints one
\* hundredth above the float64 one.
StdScores == {<<6, 2, 85, 96, 71>>, <<82, 39, 88, 37, 33>>}

\* print_metrics is called on a non-empty array of scores.
InitMetrics ==
  /\ metric \in (SeqsUpTo(ScoreValues, MaxScores) \ {<<>>}) \cup EightScores
                \cup FortyScores \cup StdScores
  /\ metric_dtype \in Dtypes
  /\ num_batch = 1
  /\ InitCommon(1)
  /\ pc = "metrics"
  /\ num_episodes = 0
  /\ num_steps = 0

\* lines 389-392
PrintMetrics ==
  /\ pc = "metrics"
  /\ report' = [mean |-> Fmt2(Mean(metric).num, Mean(metric).den, metric_dtype),
                std |-> StdFmt2(metric, metric_dtype),
                median |-> Fmt2(Median(metric).num, Median(metric).den,
                                metric_dtype),
                iqm |-> LET tm == TrimMean(metric, proportiontocut)
                        IN Fmt2(tm.num, tm.den, metric_dtype)]
  /\ pc' = "printed"
  /\ UNCHANGED <<wrapperVars, histVars, num_episodes, num_batch, num_steps,
                 error, c, t, i, obs_list, obs, actions, step_results, rew_sum,
                 done, done_prev, rew_sum_list, result>>
  /\ UNCHANGED <<seedVars, policy_calls, close_calls, orderVars, metric,
                 metric_dtype>>

NextMetrics == PrintMetrics

SpecMetrics == InitMetrics /\ [][NextMetrics]_vars

\* ---------------------------------------------------------------------
\* C14: the iqm printed for n scores is the mean of what is left after the
\* floor(n/4) lowest and the floor(n/4) highest scores are thrown away; for
\* the scores 1, 2, 3, 4, 100 (in any order) it is 3.00, printed with mean
\* 22.00 and median 3.00.
RemoveOne(s, x) ==
  LET p == CHOOSE q \in 1..Len(s) : s[q] = x
  IN SubSeq(s, 1, p - 1) \o SubSeq(s, p + 1, Len(s))

Lowest(s) == CHOOSE x \in {s[p] : p \in 1..Len(s)} : \A p \in 1..Len(s) : x <= s[p]
Highest(s) == CHOOSE x \in {s[p] : p \in 1..Len(s)} : \A p \in 1..Len(s) : x >= s[p]

RECURSIVE DropExtremes(_, _)
DropExtremes(s, q) ==
  IF q = 0 THEN s
  ELSE DropExtremes(RemoveOne(RemoveOne(s, Lowest(s)), Highest(s)), q - 1)

Literal(s) ==
  /\ Len(s) = 5
  /\ \A x \in {1, 2, 3, 4, 100} : Cardinality({p \in 1..5 : s[p] = x}) = 1

C14_InterquartileMean ==
  pc = "printed" =>
    LET rest == DropExtremes(metric, Len(metric) \div 4)
    IN /\ report.iqm = Fmt2(SeqSum(rest), Len(rest), metric_dtype)
       /\ Literal(metric) =>
            report.iqm = 300 /\ report.mean = 2200 /\ report.median = 300

\* Eight scores whose mean is 1.125 or 0.125, floats that are exact: Python
\* prints 1.12 and 0.12.  Three ones among forty scores: the float32 array
\* prints mean 0.08, a list of Python numbers 0.07.  Five scores with exact
\* standard deviation 40.00499...: float32 prints 40.01, float64 40.00.
C14_PrintedTies ==
  pc = "printed" =>
    /\ (metric = <<1, 1, 1, 1, 1, 1, 1, 2>>) =>
         report = [mean |-> 112, std |-> 33, median |-> 100, iqm |-> 100]
    /\ (metric = <<0, 0, 0, 0, 0, 0, 0, 1>>) =>
         report = [mean |-> 12, std |-> 33, median |-> 0, iqm |-> 0]
    /\ (Len(metric) = 40 /\ SeqSum(metric) = 3) =>
         report = [mean |-> IF metric_dtype = "float32" THEN 8 ELSE 7,
                   std |-> 26, median |-> 0, iqm |-> 0]
    /\ (metric = <<6, 2, 85, 96, 71>>) =>
         report = [mean |-> 5200,
                   std |-> IF metric_dtype = "float32" THEN 4001 ELSE 4000,
                   median |-> 7100, iqm |-> 5400]
    /\ (metric = <<82, 39, 88, 37, 33>>) =>
         report = [mean |-> 5580,
                   std |-> IF metric_dtype = "float32" THEN 2400 ELSE 2399,
                   median |-> 3900, iqm |-> 5267]

\* the scores of the example, given out of order, have been printed.
C14_Witness ==
  /\ pc = "printed"
  /\ metric = <<100, 3, 1, 4, 2>>
  /\ metric_dtype = "float32"
  /\ report.iqm = 300
  /\ report.std = 3901

\* ---------------------------------------------------------------------
\* C15: after any sequence of calls, every terminal flag of the window that
\* is true was appended by pad_current_episode, every flag that is false by
\* reset itself, and none by step, whatever done values the wrapped
\* environment returned; and after a sequence of reset and step calls only,
\* the flags are the ones the last reset wrote (pad_current_episode ran
\* inside reset and nowhere else).
C15_FlagsOnlyFromPad ==
  \A k \in Slots :
    /\ Len(envs[k].done_kind) = Len(envs[k].done_stack)
    /\ \A p \in 1..Len(envs[k].done_stack) :
         /\ envs[k].done_kind[p] \in {"pad", "reset"}
         /\ envs[k].done_stack[p] = 1 <=> envs[k].done_kind[p] = "pad"
    /\ (OnlyResetAndStep(k) /\ envs[k].done_stack # <<>>) =>
         envs[k].done_stack =
           WrapperReset(NewWrapper(envs[k].num_stack_frames), 1).done_stack

\* two steps in a row returned, the second with raw done true, and the
\* window still shows the flags written at reset.
C15_Witness ==
  \E k \in Slots :
    /\ Returned(k) /\ OnlyResetAndStep(k)
    /\ envs[k].num_stack_frames = 3
    /\ last_call[k].op = "step" /\ last_call[k].before.actions[1] = 1
    /\ last_call[k].done
    /\ envs[k].done_stack = <<1, 1, 0>>
    /\ envs[k].obs_stack = <<1, 2, 1>>

\* ---------------------------------------------------------------------
\* C16: in a round, tick by tick: one policy call, then one step call on
\* each of the N wrappers, latched or not.  Between ticks every wrapper has
\* been stepped once per policy call; during a tick the wrappers before the
\* comprehension's position have one step more.  A policy call is made only
\* when every wrapper has been stepped for the tick before, and what it is
\* given is the windows the wrappers hold after those steps.
C16_BetweenTicks ==
  /\ pc \in {"tick", "end_round"} =>
       /\ policy_calls = ticks
       /\ \A k \in Slots : round_steps[k] = ticks
       /\ obs = [k \in Slots |-> GetObs(envs[k])]
  /\ (pc = "step" \/ (pc = "raised" /\ policy_calls > 0)) =>
       /\ policy_calls = ticks + 1
       /\ \A k \in Slots : round_steps[k] \in {ticks, ticks + 1}
       /\ \A k \in Slots : (pc = "step") =>
            round_steps[k] = (IF k < i THEN ticks + 1 ELSE ticks)

C16_PolicyAfterSteps ==
  policy_calls' = policy_calls + 1 =>
    /\ \A k \in Slots : round_steps[k] = policy_calls
    /\ obs = [k \in Slots |-> GetObs(envs[k])]
    /\ \A k \in Slots : round_steps'[k] = round_steps[k]

C16_TickDiscipline == []C16_BetweenTicks /\ [][C16_PolicyAfterSteps]_vars

\* two ticks are complete on wrappers of two frames; one wrapper latched in
\* the first tick and was stepped again in the second, the other is still
\* running.
C16_Witness ==
  /\ pc = "tick" /\ ticks = 2 /\ policy_calls = 2
  /\ envs[1].num_stack_frames = 2
  /\ \E k, j \in Slots :
       /\ first_done[k] = 0 /\ round_steps[k] = 2
       /\ done[j] = 0 /\ round_steps[j] = 2

\* ---------------------------------------------------------------------
\* C17: with the N step calls of a tick made in any order and their
\* statements interleaved, each slot goes through the tick on its own state
\* alone.  While the calls run, the wrapper of a slot is the wrapper the
\* slot had when the tick began, changed by as much of its own call as has
\* run, whatever the calls of the other slots have done meanwhile; its
\* window holds frames of its own environment only, and no latch or
\* cumulative reward changes.  When the tick is over,
\* the wrappers and the windows given to the next policy call are those the
\* calls made in list order, one after the other, would have left; the
\* latch of a slot is set exactly when the slot's own environment has
\* returned done in this round, and its cumulative reward is the sum of the
\* rewards its own environment returned before that.
\* the wrapper of slot k after its whole step call of this tick
OwnStep(k) ==
  WrapperStep(pre_envs[k], actions[k], step_calls[k].obs, step_calls[k].rew,
              step_calls[k].done, "info")

\* the wrappers after the calls of slots 1..n made in list order (line 348)
RECURSIVE InListOrder(_)
InListOrder(n) ==
  IF n = 0 THEN pre_envs
  ELSE [InListOrder(n - 1) EXCEPT ![n] =
          WrapperStep(@, actions[n], step_calls[n].obs, step_calls[n].rew,
                      step_calls[n].done, "info")]

\* the frames the environment of slot k returns in a round
OwnFrames(k) == {EnvFrame(k, n) : n \in 0..MaxSteps}

C17_DuringTick ==
  pc = "step" =>
    /\ rew_sum = pre_rew_sum /\ done = done_prev
    /\ \A k \in Slots :
         /\ envs[k] =
              CASE step_calls[k].stage = "idle" -> pre_envs[k]
                [] step_calls[k].stage \in {"acted", "raw"} ->
                     StepSetAction(pre_envs[k], actions[k])
                [] step_calls[k].stage = "returned" -> OwnStep(k)
         /\ step_calls[k].stage = "returned" =>
              step_results[k] = [obs |-> GetObs(OwnStep(k)),
                                 rew |-> step_calls[k].rew,
                                 done |-> step_calls[k].done]

C17_AfterTick ==
  (pc \in {"tick", "end_round"} /\ ticks > 0) =>
    /\ envs = InListOrder(num_batch)
    /\ obs = [k \in Slots |-> GetObs(OwnStep(k))]
    /\ \A k \in Slots :
         /\ done[k] = (IF first_done[k] = -1 THEN 0 ELSE 1)
         /\ rew_sum[k] = raw_before[k]

C17_OwnFrames ==
  pc \in {"tick", "step", "end_round"} =>
    \A k \in Slots : \A p \in 1..Len(envs[k].obs_stack) :
      envs[k].obs_stack[p] \in OwnFrames(k) \cup {0}

C17_OrderIndependent == C17_DuringTick /\ C17_AfterTick /\ C17_OwnFrames

\* in the second tick of a round of two wrappers of two frames, the call of
\* the second slot has returned, with reward 1 and done, while the call of
\* the first slot, begun before it, still waits for its raw environment.
C17_Witness ==
  /\ pc = "step" /\ ticks = 1 /\ num_batch = 2
  /\ envs[1].num_stack_frames = 2
  /\ step_calls[1].stage = "acted" /\ step_calls[2].stage = "returned"
  /\ step_calls[2].done /\ step_calls[2].rew = 1
  /\ actions = <<1, 1>>
  /\ envs[2].obs_stack = <<EnvFrame(2, 1), EnvFrame(2, 2)>>
  /\ envs[1].obs_stack = <<EnvFrame(1, 0), EnvFrame(1, 1)>>
  /\ envs[1].act_stack = <<0, 1>>
  /\ done = <<0, 0>> /\ rew_sum = <<1, 1>>

\* ---------------------------------------------------------------------
\* C18: the seeds of all num_episodes episodes are drawn before any
\* environment is called and the list is never changed afterwards; in round
\* c the reset of slot k is given the seed at index c * N + k (slots counted
\* from 0); no seed is given to more than one reset, and when the rollout
\* returns every seed has been given to exactly one.
C18_SeedOfSlot ==
  /\ env_called => Len(seeds_list) = num_episodes
  /\ pc \in {"reset", "tick", "step", "end_round", "raised"} =>
       \A k \in Slots : round_resets[k] > 0 =>
         /\ reset_seed[k] = seeds_list[c * num_batch + (k - 1) + 1]
         /\ reset_seed[k] = DrawSeeds(num_episodes)[c * num_batch + k]
  /\ \A j \in DOMAIN seed_uses : seed_uses[j] <= 1
  /\ pc \in {"returned", "closed"} =>
       \A j \in 1..num_episodes : seed_uses[j] = 1

C18_SeedsFixed == env_called => seeds_list' = seeds_list

C18_SeedSchedule == []C18_SeedOfSlot /\ [][C18_SeedsFixed]_vars

\* two rounds of two environments returned: the second round used the
\* third and the fourth seed.
C18_Witness ==
  /\ pc = "returned" /\ c = 2 /\ num_batch = 2
  /\ reset_seed = <<3, 4>>
  /\ seed_uses = <<1, 1, 1, 1>>
  /\ rng_seed = 3

\* ---------------------------------------------------------------------
\* C19: after every reset that returned, on a wrapper used before or not,
\* nothing of the earlier episode is left in the window: all positions but
\* the last hold the zero observation with action 0 and reward 0, the last
\* holds the observation the environment's reset returned with action 0 and
\* reward 0, and the wrapper equals a new wrapper of the same capacity
\* reset with that observation.
C19_ResetForgets ==
  \A k \in Slots : (Returned(k) /\ last_call[k].op = "reset") =>
    LET w == envs[k]
        n == envs[k].num_stack_frames
    IN /\ \A p \in 1..(n - 1) :
            w.obs_stack[p] = 0 /\ w.act_stack[p] = 0 /\ w.rew_stack[p] = 0
       /\ w.obs_stack[n] = last_call[k].obs
       /\ w.act_stack[n] = 0 /\ w.rew_stack[n] = 0
       /\ Len(w.obs_stack) = n /\ Len(w.act_stack) = n /\ Len(w.rew_stack) = n
       /\ w = WrapperReset(NewWrapper(n), last_call[k].obs)

\* a wrapper whose window was full of another episode's frames, actions and
\* rewards has been reset.
C19_Witness ==
  \E k \in Slots :
    /\ Returned(k) /\ OnlyResetAndStep(k) /\ last_call[k].op = "reset"
    /\ last_call[k].before.observations = <<2, 2, 2>>
    /\ last_call[k].before.actions = <<1, 1, 0>>
    /\ last_call[k].before.rewards = <<1, 1, 0>>
    /\ envs[k].obs_stack = <<0, 0, 1>>

\* ---------------------------------------------------------------------
\* C20: on a wrapper used through reset and step only, a step that returned
\* wrote the action and the reward into the slots of the timestep that was
\* newest before it and appended one timestep with the new observation,
\* action 0 and reward 0; every older timestep kept its observation, action
\* and reward and moved one position towards the oldest end, the oldest
\* leaving the window.  After every reset or step that returned, the newest
\* position holds action 0 and reward 0.
C20_StepFrame ==
  \A k \in Slots : (Returned(k) /\ OnlyResetAndStep(k)) =>
    LET w == envs[k]
        n == envs[k].num_stack_frames
        bef == last_call[k].before
    IN /\ w.act_stack[n] = 0 /\ w.rew_stack[n] = 0
       /\ w.obs_stack[n] = last_call[k].obs
       /\ (last_call[k].op = "step") =>
            /\ Len(bef.observations) = n - 1
            /\ Len(bef.actions) = n - 1 /\ Len(bef.rewards) = n - 1
            /\ \A p \in 1..(n - 1) : w.obs_stack[p] = bef.observations[p]
            /\ \A p \in 1..(n - 2) :
                 /\ w.act_stack[p] = bef.actions[p]
                 /\ w.rew_stack[p] = bef.rewards[p]
            /\ (n >= 2) =>
                 /\ w.act_stack[n - 1] = last_call[k].action
                 /\ w.rew_stack[n - 1] = last_call[k].rew

\* the second step of an episode: the first step's action and reward have
\* moved from the middle of the window to its oldest position.
C20_Witness ==
  \E k \in Slots :
    /\ Returned(k) /\ OnlyResetAndStep(k) /\ last_call[k].op = "step"
    /\ last_call[k].before.observations = <<1, 2>>
    /\ last_call[k].before.actions = <<1, 0>>
    /\ last_call[k].before.rewards = <<1, 0>>
    /\ last_call[k].action = 1 /\ last_call[k].rew = 0
    /\ envs[k].obs_stack = <<1, 2, 1>>
    /\ envs[k].act_stack = <<1, 1, 0>>
    /\ envs[k].rew_stack = <<1, 0, 0>>

====
